---------------------------- MODULE Spec2Model ----------------------------
(***************************************************************************)
(* llib::PoolAllocator<T> (lpool.hpp): a pool of fixed-size chunks carved  *)
(* from malloc'ed blocks, with a free list threaded through the chunks.    *)
(*                                                                         *)
(* The heap is modelled byte by byte.  A pointer is PtrBytes bytes, stored *)
(* little-endian, and usize arithmetic is taken modulo 2^WordBits.  TLC's  *)
(* integers are 32 bits wide, so the model is the 16-bit instance of the   *)
(* platform parameters (sizeof(ptr) = 2, usize 16 bits): all the address   *)
(* arithmetic of the source is then computed exactly.                      *)
(*                                                                         *)
(* Undefined behaviour (a load or store through a null or wild pointer, a  *)
(* store past the end of a block, a load of uninitialised bytes, free() of *)
(* a pointer malloc never returned) is a choice between the run ending     *)
(* there (pc = "Crashed") and the run going on: a wild load then yields    *)
(* any value of WildValues, a wild store is lost.                          *)
(***************************************************************************)
EXTENDS Integers, Sequences, FiniteSets, TLC

\* ---------------------------------------------------------------- bounds
\* The constructor's arguments range over 0..MaxChunks and 0..MaxBlocks.
MaxChunks == 2
MaxBlocks == 2
\* allocate/deallocate/consumer-write calls per run.
MaxOps == 4
\* The same, for the one-configuration specification SpecDeep.
DeepOps == 7
\* The same, for the specification SpecSizing of large chunks_per_block.
SizingOps == 2
\* The calls for which main's run is followed once undefined behaviour has
\* happened in it.
MaxStray == 5

\* ------------------------------------------------------ platform, heap
\* sizeof(ptr), sizeof(Chunk *): the width of a free chunk's link.
PtrBytes == 2
\* The width of usize.
WordBits == 16
\* sizeof(T) of the instantiations modelled: below, at and above PtrBytes.
ElemSizes == {1, 2, 4}
\* The byte pattern a consumer stores in a chunk it was handed.
UserByte == 10

Null == 0
\* A byte malloc returned and nobody has stored to.
Uninit == 0 - 1
\* malloc hands out regions at SlotBase(s): SlotStride apart, so two blocks
\* never overlap and (C * sizeof(T) <= 8 * 4 < SlotStride) there is a gap
\* after each block.
SlotStride == 40
HeapBase == 4096
Slots == 0 .. (MaxBlocks - 1)
SlotBase(s) == HeapBase + s * SlotStride
ArenaEnd == HeapBase + MaxBlocks * SlotStride
Arena == HeapBase .. (ArenaEnd - 1)
\* The address calloc returns for the block pointer array.
TableAddr == HeapBase - SlotStride
\* The values a load through a null or wild pointer, or of uninitialised
\* bytes, may yield: null, an unmapped address, the address of a chunk.
WildValues == {Null, 1, HeapBase}

VARIABLES
    chunks_per_block,       \* the constructor's first argument
    max_blocks,             \* the constructor's second argument
    budget,                 \* calls the run may still make
    pc,                     \* "Uninitialized", "Constructed", "TornDown", "Crashed"
    m_chunk_size,
    m_chunks_per_block,
    m_max_blocks,
    m_current_block_index,
    m_blocks,               \* the pointer calloc returned (Null: refused)
    m_alloc,
    table,                  \* the array m_blocks points to, entry i at table[i + 1]
    mem,                    \* the heap, byte by byte
    live,                   \* the blocks malloc returned and free has not seen
    outstanding,            \* addresses handed out and not given back, oldest first
    released,               \* the pointers the destructor passed to free, in order
    last,                   \* the last call: what it saw, what it returned
    run,                    \* the successful allocations of a fresh pool, while
                            \* nothing else has happened
    freed,                  \* the chunks of the current run of deallocations that
                            \* allocate has not handed back yet
    recovery,               \* how far the run is through "allocate finds the pool
                            \* exhausted, deallocate(x), allocate": phase 1, 2, 3
    ubSeen,                 \* undefined behaviour has happened and the run went on
    example_items,          \* main's array: what its allocate() calls returned
    stray,                  \* the calls main has made since undefined behaviour
                            \* happened, that call included
    lpool_log_level,        \* the process-wide LPoolLogLevel
    stderr                  \* the trace lines the last call on the pool wrote

vars == <<chunks_per_block, max_blocks, budget, pc, m_chunk_size,
          m_chunks_per_block, m_max_blocks, m_current_block_index, m_blocks,
          m_alloc, table, mem, live, outstanding, released, last, run, freed,
          recovery, ubSeen, example_items, stray, lpool_log_level, stderr>>

\* ------------------------------------------------------------ arithmetic
\* usize arithmetic.
Wrap(n) == n % (2 ^ WordBits)
\* Byte i of the little-endian image of v.
Byte(v, i) == (v \div (256 ^ i)) % 256
\* The bytes of the pointer-sized word at a.
WordAt(a) == a .. (a + PtrBytes - 1)

\* *(Chunk **)a = v.  Bytes that fall outside the heap are lost.
StoreWord(m, a, v) ==
    [x \in Arena |-> IF x \in WordAt(a) THEN Byte(v, x - a) ELSE m[x]]

\* Whether the word at a can be loaded: mapped, and every byte stored to.
CanLoad(m, a) == \A x \in WordAt(a) : x \in Arena /\ m[x] # Uninit

RECURSIVE Decode(_, _, _)
Decode(m, a, i) ==
    IF i = PtrBytes THEN 0 ELSE m[a + i] * (256 ^ i) + Decode(m, a, i + 1)
\* *(Chunk **)a.
LoadWord(m, a) == Decode(m, a, 0)

\* Whether the n bytes at a lie inside one block of blocks.
InBlock(blocks, a, n) ==
    \E b \in blocks : b.base <= a /\ a + n <= b.base + b.size

\* s without its i-th element.
Remove(s, i) == SubSeq(s, 1, i - 1) \o SubSeq(s, i + 1, Len(s))


\* -------------------------------------------------------------- the log
\* enum LPoolLogLevel.
LPOOL_NO_LOG == 0
LPOOL_SHOW_ALLOCATIONS == 1
LPoolLogLevel == {LPOOL_NO_LOG, LPOOL_SHOW_ALLOCATIONS}

\* fprintf(stderr, "<text>: %p\n", p).
Line(text, p) == [text |-> text, ptr |-> p]

\* if (lpool_log_level) fprintf(stderr, ...), for each of `lines` in turn.
fprintf(lines) == IF lpool_log_level # LPOOL_NO_LOG THEN lines ELSE <<>>


\* ------------------------------------------------------------ the calls
\* What a call that has not happened looks like.
NoCall ==
    [op |-> "none", arg |-> Null, ret |-> Null, expect |-> Null,
     head |-> Null, index |-> 0, table |-> <<>>, out |-> <<>>,
     malloc |-> "none", ub |-> {}]

\* The record of a call `op` made in the current state.
Call(op, arg, ret, malloc, ub) ==
    [op |-> op, arg |-> arg, ret |-> ret,
     expect |-> IF freed.chunks = <<>> THEN Null
                ELSE freed.chunks[Len(freed.chunks)],
     head |-> m_alloc, index |-> m_current_block_index, table |-> table,
     out |-> outstanding, malloc |-> malloc, ub |-> ub]

Impure == [pure |-> FALSE, n |-> 0, growAt |-> <<>>]

Idle == [phase |-> 0, x |-> Null]

Init ==
    /\ chunks_per_block \in 0 .. MaxChunks
    /\ max_blocks \in 0 .. MaxBlocks
    /\ m_chunk_size \in ElemSizes
    /\ budget = MaxOps
    /\ pc = "Uninitialized"
    /\ m_chunks_per_block = 0
    /\ m_max_blocks = 0
    /\ m_current_block_index = 0
    /\ m_blocks = Null
    /\ m_alloc = Null
    /\ table = <<>>
    /\ mem = [x \in Arena |-> Uninit]
    /\ live = {}
    /\ outstanding = <<>>
    /\ released = <<>>
    /\ last = NoCall
    /\ run = [pure |-> TRUE, n |-> 0, growAt |-> <<>>]
    /\ freed = [chunks |-> <<>>, popping |-> FALSE]
    /\ recovery = Idle
    /\ ubSeen = FALSE
    /\ example_items = <<>>
    /\ stray = 0
    /\ lpool_log_level \in LPoolLogLevel
    /\ stderr = <<>>

\* PoolAllocator(chunks_per_block, max_blocks).  calloc returns the array,
\* zeroed, or null; the constructor does not look at which.
PoolAllocator ==
    /\ pc = "Uninitialized"
    /\ \E array \in {Null, TableAddr} :
        /\ m_blocks' = array
        /\ table' = IF array = Null THEN <<>>
                    ELSE [i \in 1 .. max_blocks |-> Null]
    /\ m_chunks_per_block' = chunks_per_block
    /\ m_max_blocks' = max_blocks
    /\ m_current_block_index' = 0
    /\ m_alloc' = Null
    /\ pc' = "Constructed"
    /\ last' = Call("PoolAllocator", Null, Null, "none", {})
    /\ stderr' = fprintf(<<Line("Allocating Block Pointer Array", m_blocks')>>)
    /\ UNCHANGED <<chunks_per_block, max_blocks, budget, m_chunk_size, mem,
                   live, outstanding, released, run, freed, recovery,
                   ubSeen>>

\* usize const block_size = m_chunks_per_block * m_chunk_size.
block_size == Wrap(m_chunks_per_block * m_chunk_size)

\* The bound of the threading loop, i < m_chunks_per_block - 1, in usize.
LoopBound == Wrap(m_chunks_per_block - 1)

\* The threading loop from `chunk` with n iterations to go, and the store
\* of the null link after it.  chunk = chunk->next loads what was stored.
RECURSIVE thread(_, _, _)
thread(m, chunk, n) ==
    IF n = 0 THEN StoreWord(m, chunk, Null)
    ELSE LET linked == StoreWord(m, chunk, Wrap(chunk + m_chunk_size))
         IN  thread(linked, LoadWord(linked, chunk), n - 1)

\* What a call leaves alone, as _allocate_block's result.
Keep ==
    [ret |-> m_alloc, index |-> m_current_block_index, table |-> table,
     mem |-> mem, live |-> live, ub |-> {}, fatal |-> FALSE]

\* _allocate_block without the ++ of m_blocks[m_current_block_index++].
_allocate_block_no_increment(block_begin) ==
    IF m_current_block_index >= m_max_blocks THEN [Keep EXCEPT !.ret = Null]
    ELSE IF block_begin = Null THEN [Keep EXCEPT !.ret = Null]
    ELSE LET leaves == block_begin + LoopBound * m_chunk_size + PtrBytes > ArenaEnd
             past == ~leaves /\ \E i \in 0 .. LoopBound :
                        i * m_chunk_size + PtrBytes > block_size
         IN  [ret |-> block_begin,
              index |-> m_current_block_index,
              table |-> IF m_blocks = Null THEN table
                        ELSE [table EXCEPT ![m_current_block_index + 1] = block_begin],
              mem |-> IF leaves THEN mem ELSE thread(mem, block_begin, LoopBound),
              live |-> live \cup {[base |-> block_begin, size |-> block_size]},
              ub |-> (IF m_blocks = Null THEN {"null_table_store"} ELSE {})
                     \cup (IF leaves THEN {"runaway_loop"} ELSE {})
                     \cup (IF past THEN {"store_past_block"} ELSE {}),
              fatal |-> leaves]

\* _allocate_block(), with block_begin what malloc returned.  A loop that
\* leaves the heap sweeps on through the address space (LoopBound is 2^w - 1
\* when m_chunks_per_block is 0): the run ends there (fatal).
_allocate_block(block_begin) ==
    IF m_current_block_index >= m_max_blocks THEN [Keep EXCEPT !.ret = Null]
    ELSE IF block_begin = Null THEN [Keep EXCEPT !.ret = Null]
    ELSE LET leaves == block_begin + LoopBound * m_chunk_size + PtrBytes > ArenaEnd
             past == ~leaves /\ \E i \in 0 .. LoopBound :
                        i * m_chunk_size + PtrBytes > block_size
         IN  [ret |-> block_begin,
              index |-> Wrap(m_current_block_index + 1),
              table |-> IF m_blocks = Null THEN table
                        ELSE [table EXCEPT ![m_current_block_index + 1] = block_begin],
              mem |-> IF leaves THEN mem ELSE thread(mem, block_begin, LoopBound),
              live |-> live \cup {[base |-> block_begin, size |-> block_size]},
              ub |-> (IF m_blocks = Null THEN {"null_table_store"} ELSE {})
                     \cup (IF leaves THEN {"runaway_loop"} ELSE {})
                     \cup (IF past THEN {"store_past_block"} ELSE {}),
              fatal |-> leaves]

\* if (m_alloc == nullptr) m_alloc = _allocate_block(), without the if.
grow_always(block_begin) == _allocate_block(block_begin)

\* if (m_alloc == nullptr) m_alloc = _allocate_block(): a block is asked for
\* only when the free list is empty.
grow(block_begin) ==
    IF m_alloc = Null THEN _allocate_block(block_begin) ELSE Keep

\* What malloc may return to this call of allocate: null, or the next region
\* not in use.  (malloc is only called when a block is needed and allowed;
\* the heap's regions are SlotStride bytes, a bigger request is refused.)
MallocResults ==
    IF m_alloc = Null /\ m_current_block_index < m_max_blocks
                      /\ block_size <= SlotStride
    THEN {Null, SlotBase(Cardinality(live))}
    ELSE {Null}

\* The run ends in the call `call`.
Crash(call) ==
    /\ pc' = "Crashed"
    /\ last' = call
    /\ UNCHANGED <<chunks_per_block, max_blocks, budget, m_chunk_size,
                   m_chunks_per_block, m_max_blocks, m_current_block_index,
                   m_blocks, m_alloc, table, mem, live, outstanding, released,
                   run, freed, recovery, ubSeen>>

\* allocate().
allocate ==
    /\ pc = "Constructed"
    /\ budget > 0
    /\ \E block_begin \in MallocResults, wild \in WildValues, survive \in BOOLEAN :
        LET g == grow(block_begin)
            free_chunk == g.ret
            loads == CanLoad(g.mem, free_chunk)
            next == IF loads THEN LoadWord(g.mem, free_chunk) ELSE wild
            ub == g.ub \cup
                  (IF free_chunk = Null THEN {"null_load"}
                   ELSE IF ~InBlock(g.live, free_chunk, 1) THEN {"wild_load"}
                   ELSE IF ~InBlock(g.live, free_chunk, PtrBytes)
                   THEN {"load_past_block"}
                   ELSE IF ~loads THEN {"uninit_load"} ELSE {})
            malloc == IF m_alloc # Null \/ m_current_block_index >= m_max_blocks
                      THEN "none"
                      ELSE IF block_begin = Null THEN "refused" ELSE "ok"
            call == Call("allocate", Null, IF survive THEN free_chunk ELSE Null,
                         malloc, ub)
            block_line == IF m_alloc = Null
                          THEN <<Line("Allocating Block", g.ret)>> ELSE <<>>
        IN  /\ loads => wild = Null
            /\ ub = {} => survive
            /\ g.fatal => ~survive
            /\ IF survive
               THEN /\ stderr' = fprintf(block_line \o
                                         <<Line("Mutator Code Allocated", free_chunk)>>)
                    /\ m_alloc' = next
                    /\ m_current_block_index' = g.index
                    /\ table' = g.table
                    /\ mem' = g.mem
                    /\ live' = g.live
                    /\ outstanding' = IF free_chunk = Null THEN outstanding
                                      ELSE Append(outstanding, free_chunk)
                    /\ run' = IF run.pure /\ free_chunk # Null
                              THEN [pure |-> TRUE, n |-> run.n + 1,
                                    growAt |-> IF malloc = "ok"
                                               THEN Append(run.growAt, run.n + 1)
                                               ELSE run.growAt]
                              ELSE Impure
                    /\ freed' = IF freed.chunks = <<>> THEN freed
                                ELSE [chunks |-> SubSeq(freed.chunks, 1,
                                                        Len(freed.chunks) - 1),
                                      popping |-> TRUE]
                    /\ recovery' =
                         IF m_alloc = Null /\ m_current_block_index >= m_max_blocks
                         THEN [phase |-> 1, x |-> Null]
                         ELSE IF recovery.phase = 2
                         THEN [recovery EXCEPT !.phase = 3]
                         ELSE Idle
                    /\ ubSeen' = (ubSeen \/ ub # {})
                    /\ budget' = budget - 1
                    /\ last' = call
                    /\ UNCHANGED <<chunks_per_block, max_blocks, pc, m_chunk_size,
                                   m_chunks_per_block, m_max_blocks, m_blocks,
                                   released>>
               ELSE /\ Crash(call)
                    /\ \/ g.ub # {} /\ stderr' = <<>>
                       \/ ~g.fatal /\ ub # g.ub /\ stderr' = fprintf(block_line)

\* deallocate(chunk), for the i-th outstanding address (the contract: an
\* address allocate returned and the consumer has not given back).
deallocate(i) ==
    /\ pc = "Constructed"
    /\ budget > 0
    /\ i \in 1 .. Len(outstanding)
    /\ \E survive \in BOOLEAN :
        LET chunk == outstanding[i]
            ub == IF InBlock(live, chunk, PtrBytes) THEN {}
                  ELSE IF InBlock(live, chunk, 1) THEN {"store_past_block"}
                  ELSE {"wild_store"}
            call == Call("deallocate", chunk, Null, "none", ub)
        IN  /\ ub = {} => survive
            /\ stderr' = fprintf(<<Line("Mutator Code Deallocated", chunk)>>)
            /\ IF survive
               THEN /\ mem' = StoreWord(mem, chunk, m_alloc)
                    /\ m_alloc' = chunk
                    /\ outstanding' = Remove(outstanding, i)
                    /\ run' = Impure
                    /\ freed' = [chunks |-> IF freed.popping THEN <<chunk>>
                                            ELSE Append(freed.chunks, chunk),
                                 popping |-> FALSE]
                    /\ recovery' = IF recovery.phase = 1
                                   THEN [phase |-> 2, x |-> chunk] ELSE Idle
                    /\ ubSeen' = (ubSeen \/ ub # {})
                    /\ budget' = budget - 1
                    /\ last' = call
                    /\ UNCHANGED <<chunks_per_block, max_blocks, pc, m_chunk_size,
                                   m_chunks_per_block, m_max_blocks,
                                   m_current_block_index, m_blocks, table, live,
                                   released>>
               ELSE Crash(call)

\* chunks_per_block() with m_max_blocks for m_chunks_per_block.
get_chunks_per_block_swapped == m_max_blocks

\* chunk_size(), max_blocks(), chunks_per_block().
chunk_size == m_chunk_size
get_max_blocks == m_max_blocks
get_chunks_per_block == m_chunks_per_block

\* The chunks reached from a by following Chunk::next, at most n of them: up
\* to the null link, or to a link that cannot be loaded.
RECURSIVE chain(_, _, _)
chain(m, a, n) ==
    IF a = Null \/ n = 0 \/ ~CanLoad(m, a) THEN <<>>
    ELSE <<a>> \o chain(m, LoadWord(m, a), n - 1)

\* Whether following Chunk::next from a reaches the null link within n chunks.
RECURSIVE ends(_, _, _)
ends(m, a, n) ==
    IF a = Null THEN TRUE
    ELSE IF n = 0 \/ ~CanLoad(m, a) THEN FALSE
    ELSE ends(m, LoadWord(m, a), n - 1)

\* The free list: the chunks reached from m_alloc.  A pool has at most
\* chunks_per_block * max_blocks chunks.
free_list == chain(mem, m_alloc, m_chunks_per_block * m_max_blocks + 1)
free_list_ends == ends(mem, m_alloc, m_chunks_per_block * m_max_blocks + 1)

\* The consumer stores an element in the i-th chunk it holds
\* (*example_items[0] = example::Item(10, 10, 0.5)).
UserWrite(i) ==
    /\ pc = "Constructed"
    /\ budget > 0
    /\ i \in 1 .. Len(outstanding)
    /\ LET chunk == outstanding[i]
           bytes == chunk .. (chunk + m_chunk_size - 1)
       IN  /\ bytes \subseteq Arena
           /\ \E x \in bytes : mem[x] # UserByte
           /\ mem' = [x \in Arena |-> IF x \in bytes THEN UserByte ELSE mem[x]]
    /\ budget' = budget - 1
    /\ UNCHANGED <<chunks_per_block, max_blocks, pc, m_chunk_size,
                   m_chunks_per_block, m_max_blocks, m_current_block_index,
                   m_blocks, m_alloc, table, live, outstanding, released, last,
                   run, freed, recovery, ubSeen, stderr>>

\* ~PoolAllocator().  m_blocks[i] through a null m_blocks loads anything.
PoolAllocatorDtor ==
    /\ pc = "Constructed"
    /\ \E loaded \in [1 .. m_current_block_index -> WildValues], survive \in BOOLEAN :
        LET ptrs == [i \in 1 .. m_current_block_index |->
                        IF m_blocks = Null THEN loaded[i] ELSE table[i]]
            bad == \E i \in 1 .. m_current_block_index :
                      /\ ptrs[i] # Null
                      /\ \/ \A b \in live : b.base # ptrs[i]
                         \/ \E j \in 1 .. (i - 1) : ptrs[j] = ptrs[i]
            ub == (IF m_blocks = Null /\ m_current_block_index > 0
                   THEN {"null_load"} ELSE {})
                  \cup (IF bad THEN {"bad_free"} ELSE {})
            call == Call("~PoolAllocator", Null, Null, "none", ub)
            lines == [i \in 1 .. m_current_block_index |->
                         Line("Freeing Block", ptrs[i])]
        IN  /\ m_blocks # Null => \A i \in 1 .. m_current_block_index : loaded[i] = Null
            /\ ub = {} => survive
            /\ IF survive
               THEN /\ stderr' = fprintf(lines)
                    /\ released' = ptrs \o <<m_blocks>>
                    /\ live' = {b \in live : \A i \in 1 .. m_current_block_index :
                                                b.base # ptrs[i]}
                    /\ pc' = "TornDown"
                    /\ ubSeen' = (ubSeen \/ ub # {})
                    /\ last' = call
                    /\ UNCHANGED <<chunks_per_block, max_blocks, budget,
                                   m_chunk_size, m_chunks_per_block, m_max_blocks,
                                   m_current_block_index, m_blocks, m_alloc, table,
                                   mem, outstanding, run, freed, recovery>>
               ELSE /\ Crash(call)
                    /\ \E n \in 0 .. m_current_block_index :
                          stderr' = fprintf(SubSeq(lines, 1, n))

\* Any consumer: the calls in any order (main's array is not involved).
Next ==
    \/ PoolAllocator /\ UNCHANGED <<example_items, stray, lpool_log_level>>
    \/ allocate /\ UNCHANGED <<example_items, stray, lpool_log_level>>
    \/ \E i \in 1 .. (MaxOps + DeepOps) : deallocate(i) /\ UNCHANGED <<example_items, stray, lpool_log_level>>
    \/ \E i \in 1 .. (MaxOps + DeepOps) : UserWrite(i) /\ UNCHANGED <<example_items, stray, lpool_log_level>>
    \/ PoolAllocatorDtor /\ UNCHANGED <<example_items, stray, lpool_log_level>>

Spec == Init /\ [][Next]_vars

\* One instantiation, PoolAllocator<T>(1, 2) with sizeof(T) = sizeof(ptr), run
\* for more calls.
InitDeep ==
    /\ chunks_per_block = 1
    /\ max_blocks = 2
    /\ m_chunk_size = PtrBytes
    /\ budget = DeepOps
    /\ pc = "Uninitialized"
    /\ m_chunks_per_block = 0
    /\ m_max_blocks = 0
    /\ m_current_block_index = 0
    /\ m_blocks = Null
    /\ m_alloc = Null
    /\ table = <<>>
    /\ mem = [x \in Arena |-> Uninit]
    /\ live = {}
    /\ outstanding = <<>>
    /\ released = <<>>
    /\ last = NoCall
    /\ run = [pure |-> TRUE, n |-> 0, growAt |-> <<>>]
    /\ freed = [chunks |-> <<>>, popping |-> FALSE]
    /\ recovery = Idle
    /\ ubSeen = FALSE
    /\ example_items = <<>>
    /\ stray = 0
    /\ lpool_log_level = LPOOL_NO_LOG
    /\ stderr = <<>>

SpecDeep == InitDeep /\ [][Next]_vars

\* Pools of every size class: chunks_per_block small, and so large that
\* chunks_per_block * sizeof(T) reaches 2^WordBits for some sizeof(T) of
\* ElemSizes.
SizingChunks ==
    {1, 2, 2 ^ (WordBits - 2) + 2, 2 ^ (WordBits - 1), 2 ^ (WordBits - 1) + 1}

InitSizing ==
    /\ chunks_per_block \in SizingChunks
    /\ max_blocks \in 1 .. MaxBlocks
    /\ m_chunk_size \in ElemSizes
    /\ budget = SizingOps
    /\ pc = "Uninitialized"
    /\ m_chunks_per_block = 0
    /\ m_max_blocks = 0
    /\ m_current_block_index = 0
    /\ m_blocks = Null
    /\ m_alloc = Null
    /\ table = <<>>
    /\ mem = [x \in Arena |-> Uninit]
    /\ live = {}
    /\ outstanding = <<>>
    /\ released = <<>>
    /\ last = NoCall
    /\ run = [pure |-> TRUE, n |-> 0, growAt |-> <<>>]
    /\ freed = [chunks |-> <<>>, popping |-> FALSE]
    /\ recovery = Idle
    /\ ubSeen = FALSE
    /\ example_items = <<>>
    /\ stray = 0
    /\ lpool_log_level = LPOOL_NO_LOG
    /\ stderr = <<>>

SpecSizing == InitSizing /\ [][Next]_vars

\* ------------------------------------------------------------------ main
\* llib::PoolAllocator<example::Item> pallocator(8, 2), and the ten entries
\* of example_items.
MainChunks == 8
MainBlocks == 2
MainItems == 10
\* sizeof(example::Item): i32, i32, f64 are two pointers' worth of bytes.
ItemSize == 2 * PtrBytes

\* main before pallocator is constructed, with llib::lpool_log_level set to
\* LPOOL_SHOW_ALLOCATIONS.  budget counts the calls main has
\* still to make: ten allocate(), the store to *example_items[0], ten
\* deallocate().
InitMain ==
    /\ chunks_per_block = MainChunks
    /\ max_blocks = MainBlocks
    /\ m_chunk_size = ItemSize
    /\ budget = 2 * MainItems + 1
    /\ pc = "Uninitialized"
    /\ m_chunks_per_block = 0
    /\ m_max_blocks = 0
    /\ m_current_block_index = 0
    /\ m_blocks = Null
    /\ m_alloc = Null
    /\ table = <<>>
    /\ mem = [x \in Arena |-> Uninit]
    /\ live = {}
    /\ outstanding = <<>>
    /\ released = <<>>
    /\ last = NoCall
    /\ run = [pure |-> TRUE, n |-> 0, growAt |-> <<>>]
    /\ freed = [chunks |-> <<>>, popping |-> FALSE]
    /\ recovery = Idle
    /\ ubSeen = FALSE
    /\ example_items = <<>>
    /\ stray = 0
    /\ lpool_log_level = LPOOL_SHOW_ALLOCATIONS
    /\ stderr = <<>>

\* A store through the null or unmapped pointer of the call `call`, which
\* leaves `head` in m_alloc: the run ends there, or goes on with nothing
\* stored.
StrayStore(call, head) ==
    \/ Crash(call) /\ UNCHANGED example_items
    \/ /\ m_alloc' = head
       /\ ubSeen' = TRUE
       /\ run' = Impure
       /\ recovery' = Idle
       /\ budget' = budget - 1
       /\ last' = call
       /\ UNCHANGED <<chunks_per_block, max_blocks, pc, m_chunk_size,
                      m_chunks_per_block, m_max_blocks, m_current_block_index,
                      m_blocks, table, mem, live, outstanding, released, freed,
                      example_items>>

\* main's run is followed for MaxStray calls from the first undefined
\* behaviour on.
Follow ==
    /\ stray < MaxStray
    /\ stray' = IF ubSeen' THEN stray + 1 ELSE stray
    /\ UNCHANGED lpool_log_level

\* llib::PoolAllocator<example::Item> pallocator(8, 2).
main_construct == PoolAllocator /\ UNCHANGED example_items /\ Follow

\* item = pallocator.allocate(), for the next entry of example_items.
main_allocate ==
    /\ Len(example_items) < MainItems
    /\ allocate
    /\ example_items' = IF pc' = "Crashed" THEN example_items
                        ELSE Append(example_items, last'.ret)
    /\ Follow

\* *example_items[0] = example::Item(10, 10, 0.5).
main_use ==
    /\ pc = "Constructed"
    /\ budget = MainItems + 1
    /\ LET item == example_items[1]
       IN  IF \E i \in 1 .. Len(outstanding) :
                 /\ outstanding[i] = item
                 /\ item .. (item + m_chunk_size - 1) \subseteq Arena
           THEN \E i \in 1 .. Len(outstanding) :
                   /\ outstanding[i] = item
                   /\ UserWrite(i)
                   /\ UNCHANGED example_items
           ELSE /\ StrayStore(Call("write", item, Null, "none",
                                   IF item = Null THEN {"null_store"}
                                   ELSE {"wild_store"}),
                              m_alloc)
                /\ UNCHANGED stderr
    /\ Follow

\* main_deallocate with begin()/end() for rbegin()/rend(): example_items from
\* its first entry to its last.
main_deallocate_forward ==
    /\ pc = "Constructed"
    /\ budget \in 1 .. MainItems
    /\ LET item == example_items[MainItems + 1 - budget]
       IN  IF item = Null
           THEN /\ StrayStore(Call("deallocate", Null, Null, "none",
                                   {"null_store"}),
                              Null)
                /\ stderr' = fprintf(<<Line("Mutator Code Deallocated", Null)>>)
           ELSE \E i \in 1 .. Len(outstanding) :
                   /\ outstanding[i] = item
                   /\ deallocate(i)
                   /\ UNCHANGED example_items
    /\ Follow

\* pallocator.deallocate(item), example_items from its last entry to its
\* first.  deallocate(nullptr) stores m_alloc through the null pointer and
\* leaves nullptr in m_alloc.
main_deallocate ==
    /\ pc = "Constructed"
    /\ budget \in 1 .. MainItems
    /\ LET item == example_items[budget]
       IN  IF item = Null
           THEN /\ StrayStore(Call("deallocate", Null, Null, "none",
                                   {"null_store"}),
                              Null)
                /\ stderr' = fprintf(<<Line("Mutator Code Deallocated", Null)>>)
           ELSE \E i \in 1 .. Len(outstanding) :
                   /\ outstanding[i] = item
                   /\ deallocate(i)
                   /\ UNCHANGED example_items
    /\ Follow

\* return EXIT_SUCCESS: pallocator goes out of scope.
main_return ==
    /\ budget = 0
    /\ PoolAllocatorDtor
    /\ UNCHANGED example_items
    /\ Follow

main ==
    \/ main_construct
    \/ main_allocate
    \/ main_use
    \/ main_deallocate
    \/ main_return

SpecMain == InitMain /\ [][main]_vars


\* ------------------------------------------------------------ the claims
\* The pool was built from positive capacities.
Positive == chunks_per_block >= 1 /\ max_blocks >= 1
\* calloc gave the constructor its block pointer array.
TableAllocated == pc # "Uninitialized" => m_blocks # Null
\* A chunk is wide enough for a free chunk's link.
PointerSized == m_chunk_size >= PtrBytes
\* A pool that is all three.
WellFormed == Positive /\ TableAllocated /\ PointerSized

\* The last call was an allocate() that found the free list empty and
\* block_count at max_blocks.
ExhaustedCall ==
    last.op = "allocate" /\ last.head = Null /\ last.index >= m_max_blocks

\* C1: an allocate() that finds the free list empty and block_count at
\* max_blocks returns to its caller, and what it returns is null.  (Stated
\* for well-formed pools: positive capacities, block table allocated,
\* sizeof(T) >= sizeof(ptr).)
C1_ExhaustionReturnsNull ==
    (WellFormed /\ ExhaustedCall) => (pc = "Constructed" /\ last.ret = Null)

\* C2: at most chunks_per_block * max_blocks allocations are outstanding, and
\* an allocate() attempted while that many are outstanding hands out nothing.
\* (Stated for well-formed pools.)
C2_CapacityLaw ==
    WellFormed
        => /\ Len(outstanding) <= m_chunks_per_block * m_max_blocks
           /\ (last.op = "allocate"
               /\ Len(last.out) = m_chunks_per_block * m_max_blocks)
                  => last.ret = Null

\* C3: the address ranges [p, p + sizeof(T)) of any two outstanding
\* allocations are disjoint.  (Stated for well-formed pools.)
C3_NoOverlap ==
    WellFormed
        => \A i, j \in 1 .. Len(outstanding) :
              i < j => \/ outstanding[i] + m_chunk_size <= outstanding[j]
                       \/ outstanding[j] + m_chunk_size <= outstanding[i]

\* C4: after a run of deallocations X1..Xn, the next allocate() calls return
\* Xn, ..., X1 in that order (n = 1: deallocate(X), allocate() returns X).
\* (Stated for well-formed pools.)
C4_LifoReuse ==
    (WellFormed /\ last.op = "allocate" /\ pc = "Constructed"
     /\ last.expect # Null)
        => last.ret = last.expect

\* C5: an allocate() whose request for a new block malloc refuses returns
\* null and leaves block_count, the block table and the free-list head as
\* they were.  (Stated for well-formed pools.)
C5_RefusedGrowthLeavesPool ==
    (WellFormed /\ last.op = "allocate" /\ last.malloc = "refused")
        => /\ pc = "Constructed"
           /\ last.ret = Null
           /\ m_current_block_index = last.index
           /\ table = last.table
           /\ m_alloc = last.head

\* C6: a fresh pool has no block before the first allocate(), and in a run
\* of successful allocations block k is allocated by allocation
\* (k - 1) * chunks_per_block + 1, for k up to max_blocks, and by no other.
\* (Stated for pools with positive capacities and an allocated block table,
\* for every sizeof(T).)
C6_GrowthOnDemand ==
    (Positive /\ TableAllocated /\ pc = "Constructed" /\ run.pure)
        => /\ Cardinality(live) = Len(run.growAt)
           /\ Len(run.growAt) <= m_max_blocks
           /\ \A k \in 1 .. Len(run.growAt) :
                 run.growAt[k] = (k - 1) * m_chunks_per_block + 1
           /\ \A k \in 1 .. m_max_blocks :
                 (k - 1) * m_chunks_per_block + 1 <= run.n
                     => k <= Len(run.growAt)

\* C7: the destructor frees block_table[0 .. block_count - 1], each entry
\* once and in index order, then the block table; every pointer it frees is
\* a block that was created, and no created block is left.  (Stated for
\* pools with positive capacities and sizeof(T) >= sizeof(ptr).)
C7_TeardownCompleteness ==
    (Positive /\ PointerSized /\ pc = "TornDown")
        => /\ Len(released) = m_current_block_index + 1
           /\ \A i \in 1 .. m_current_block_index :
                 i <= Len(table) /\ released[i] = table[i]
           /\ released[Len(released)] = m_blocks
           /\ "bad_free" \notin last.ub
           /\ live = {}

\* C8: no pool with chunks_per_block = 0 or max_blocks = 0 leaves the
\* constructor.
C8_ZeroCapacityRejected ==
    pc # "Uninitialized" => (m_chunks_per_block >= 1 /\ m_max_blocks >= 1)

\* C9: no pool whose block table calloc refused leaves the constructor, and
\* no allocate() stores a block's address through a null m_blocks.
C9_TableRefusalRejected ==
    /\ (pc # "Uninitialized" /\ m_max_blocks >= 1) => m_blocks # Null
    /\ "null_table_store" \notin last.ub

\* C10: an allocate() that finds the pool exhausted returns with block_count,
\* the block table and the outstanding set as they were, and a deallocate(X)
\* and an allocate() after it return X.  (Stated for well-formed pools.)
C10_ExhaustionRecoverable ==
    WellFormed
        => /\ ExhaustedCall
              => /\ pc = "Constructed"
                 /\ last.ret = Null
                 /\ m_current_block_index = last.index
                 /\ table = last.table
                 /\ outstanding = last.out
           /\ (last.op = "allocate" /\ recovery.phase = 2) => pc # "Crashed"
           /\ recovery.phase = 3 => last.ret = recovery.x

\* C11: in a run of allocations of a fresh pool (no deallocation yet, no
\* block refused by malloc), every allocate() within the capacity returns,
\* and the k-th returns chunk (k - 1) mod chunks_per_block of block
\* ceil(k / chunks_per_block): block_table entry + offset * sizeof(T).
\* (Stated for pools with positive capacities and an allocated block table,
\* for every sizeof(T).)
C11_KthAllocation ==
    (Positive /\ TableAllocated /\ run.pure)
        => /\ (last.op = "allocate" /\ last.malloc # "refused"
               /\ Len(last.out) < m_chunks_per_block * m_max_blocks)
                  => (pc # "Crashed" /\ last.ret # Null)
           /\ pc = "Constructed"
                  => \A k \in 1 .. run.n :
                        /\ k <= Len(outstanding)
                        /\ (k - 1) \div m_chunks_per_block < Len(table)
                        /\ outstanding[k] =
                              table[((k - 1) \div m_chunks_per_block) + 1]
                              + ((k - 1) % m_chunks_per_block) * m_chunk_size

\* main's ten allocate() calls all returned a chunk.
AllReturned ==
    /\ Len(example_items) = MainItems
    /\ \A i \in 1 .. MainItems : example_items[i] # Null

\* C12 (as the code has it): in main (Pool(8, 2), ten allocations, then
\* deallocate() of all ten in reverse acquisition order) every deallocate()
\* returns; after each the head is the address just deallocated and the
\* free list is the deallocated chunks, last deallocated first, followed by
\* the 6 chunks of block 2 that were never handed out.  At the end the free
\* list has 16 chunks and its head is the first address allocated.
C12_ReverseDeallocation ==
    (AllReturned /\ budget <= MainItems)
        => /\ pc # "Crashed"
           /\ pc = "Constructed"
                 => /\ free_list_ends
                    /\ Len(free_list) = MainChunks * MainBlocks - budget
                    /\ SubSeq(free_list, 1, MainItems - budget)
                          = SubSeq(example_items, budget + 1, MainItems)
                    /\ budget = 0 => m_alloc = example_items[1]

\* C12 as stated: at the end of that scenario the free list has 10 linked
\* chunks and its head is the first address allocated.
C12_TenLinkedChunks ==
    (AllReturned /\ budget = 0 /\ pc = "Constructed")
        => (Len(free_list) = MainItems /\ m_alloc = example_items[1])

\* main has deallocated all ten chunks.
C12_Witness ==
    /\ AllReturned
    /\ budget = 0
    /\ pc = "Constructed"
    /\ last.op = "deallocate"
    /\ Len(free_list) = MainChunks * MainBlocks

\* C13: chunk_size(), max_blocks() and chunks_per_block() return, in every
\* state from the constructor's return on, the element size and the
\* arguments the pool was constructed with; no step changes what they return.
C13_AccessorsConstant ==
    [][/\ chunk_size' = chunk_size
       /\ pc' # "Uninitialized"
             => /\ get_max_blocks' = max_blocks
                /\ get_chunks_per_block' = chunks_per_block
       /\ pc # "Uninitialized"
             => /\ get_max_blocks' = get_max_blocks
                /\ get_chunks_per_block' = get_chunks_per_block]_vars

\* The accessors are read after an allocate() that created a block and a
\* deallocate().
C13_Witness ==
    /\ pc = "Constructed"
    /\ last.op = "deallocate"
    /\ m_current_block_index >= 1
    /\ chunk_size = m_chunk_size
    /\ get_max_blocks = max_blocks
    /\ get_chunks_per_block = chunks_per_block

\* The elements of a sequence.
Range(s) == {s[i] : i \in 1 .. Len(s)}

\* The chunks of the blocks recorded in the block table.
Chunks ==
    {table[b] + c * m_chunk_size :
        b \in 1 .. m_current_block_index, c \in 0 .. (m_chunks_per_block - 1)}

C15_BlockCountBounds ==
    [][/\ 0 <= m_current_block_index'
       /\ m_current_block_index' <= m_max_blocks'
       /\ m_current_block_index' \in
             {m_current_block_index, m_current_block_index + 1}
       /\ (m_current_block_index' = m_current_block_index + 1)
             <=> (Cardinality(live') = Cardinality(live) + 1)
       /\ Cardinality(live') <= m_current_block_index'
       /\ m_current_block_index' # m_current_block_index
             => (pc = "Constructed" /\ pc' = "Constructed")
       /\ pc # "TornDown"]_vars

\* block_count has reached max_blocks >= 2 and an allocate() has asked for
\* one more block.
C15_Witness ==
    /\ m_max_blocks >= 2
    /\ m_current_block_index = m_max_blocks
    /\ Cardinality(live) = m_max_blocks
    /\ ExhaustedCall

Calls(op) == last' # last /\ last'.op = op

\* C17: only an allocate() that finds the free list empty creates a block,
\* and it creates at most one; an allocate() that finds a chunk on the free
\* list leaves block_count, the block table, the blocks and the heap as
\* they are, returns the head, and leaves in the head the link it loaded
\* from that chunk.
C17_LazyGrowth ==
    [][/\ \/ live' \subseteq live
          \/ /\ Calls("allocate")
             /\ m_alloc = Null
             /\ Cardinality(live') = Cardinality(live) + 1
       /\ (Calls("allocate") /\ m_alloc # Null)
             => /\ m_current_block_index' = m_current_block_index
                /\ table' = table
                /\ live' = live
                /\ mem' = mem
                /\ pc' = "Constructed"
                      => /\ last'.ret = m_alloc
                         /\ CanLoad(mem, m_alloc)
                               => m_alloc' = LoadWord(mem, m_alloc)]_vars

\* An allocate() has popped a chunk off a free list of two or more while
\* the pool could still have created a block.
C17_Witness ==
    /\ pc = "Constructed"
    /\ last.op = "allocate"
    /\ last.head # Null
    /\ last.ret = last.head
    /\ last.ub = {}
    /\ m_alloc # Null
    /\ m_current_block_index = last.index
    /\ m_current_block_index < m_max_blocks

\* C18: deallocate(p), p outstanding, returns with p's link holding the
\* previous head and the head p; outside p's sizeof(T) bytes the heap is as
\* it was, and so are block_count, the block table, the blocks (none is
\* released) and the other outstanding chunks.  (Stated for pools with
\* positive capacities and an allocated block table, for every sizeof(T).)
C18_DeallocateFrame ==
    [][(Positive /\ TableAllocated /\ Calls("deallocate"))
          => LET chunk == last'.arg
             IN  /\ pc' = "Constructed"
                 /\ m_alloc' = chunk
                 /\ CanLoad(mem', chunk)
                 /\ LoadWord(mem', chunk) = m_alloc
                 /\ \A x \in Arena :
                       x \notin chunk .. (chunk + m_chunk_size - 1)
                          => mem'[x] = mem[x]
                 /\ m_current_block_index' = m_current_block_index
                 /\ table' = table
                 /\ live' = live
                 /\ released' = released
                 /\ \E i \in 1 .. Len(outstanding) :
                       /\ outstanding[i] = chunk
                       /\ outstanding' = Remove(outstanding, i)]_vars

\* C19: from the constructor's return on, the block table has max_blocks
\* entries; entries [0, block_count) hold the bases of the blocks created,
\* pairwise distinct, in creation order (a step that creates a block writes
\* entry block_count and no other), and are never written again; entries
\* [block_count, max_blocks) hold zero.  (Stated for pools with positive
\* capacities.)
C19_TableAppendOnly ==
    [][(Positive /\ pc' # "Uninitialized")
          => /\ Len(table') = m_max_blocks'
             /\ \A i \in 1 .. Len(table') :
                   IF i <= m_current_block_index'
                   THEN /\ table'[i] # Null
                        /\ \A j \in 1 .. (i - 1) : table'[j] # table'[i]
                        /\ pc' = "Constructed"
                              => \E b \in live' : b.base = table'[i]
                   ELSE table'[i] = Null
             /\ \A i \in 1 .. m_current_block_index :
                   i <= Len(table) => table'[i] = table[i]]_vars

\* C20: no call on the pool changes a byte of a chunk that is outstanding
\* before the call and after it.  (Stated for pools with positive
\* capacities and an allocated block table, for every sizeof(T).)
C20_OutstandingUntouched ==
    [][(Positive /\ TableAllocated /\ last' # last)
          => \A p \in Range(outstanding) \cap Range(outstanding') :
                \A x \in p .. (p + m_chunk_size - 1) :
                   x \in Arena => mem'[x] = mem[x]]_vars

\* The trace lines with the text `text` that the step's call wrote.
Emitted(text) == SelectSeq(stderr', LAMBDA l : l.text = text)
\* The bases of the blocks the step created.
Grown == {b.base : b \in live'} \ {b.base : b \in live}

\* C21: with the log level off no call writes a trace line; with the level
\* verbose, an allocate() writes one block-allocation line per block it
\* created, tagged with the block's address, and one element-allocation line
\* if it succeeded, tagged with the address it returned; a deallocate()
\* writes one element-deallocation line tagged with its argument; the
\* destructor writes one block-release line per block it released, in table
\* order.  (Stated for pools with positive capacities, an allocated block
\* table and sizeof(T) >= sizeof(ptr).)
C21_DiagnosticTrace ==
    [][WellFormed
          => /\ lpool_log_level = LPOOL_NO_LOG => stderr' = <<>>
             /\ (lpool_log_level # LPOOL_NO_LOG /\ Calls("allocate"))
                   => /\ Len(Emitted("Allocating Block")) = Cardinality(Grown)
                      /\ \A l \in Range(Emitted("Allocating Block")) :
                            l.ptr \in Grown
                      /\ Emitted("Mutator Code Allocated") =
                            IF pc' # "Crashed" /\ last'.ret # Null
                            THEN <<Line("Mutator Code Allocated", last'.ret)>>
                            ELSE <<>>
             /\ (lpool_log_level # LPOOL_NO_LOG /\ Calls("deallocate"))
                   => stderr' = <<Line("Mutator Code Deallocated", last'.arg)>>
             /\ (lpool_log_level # LPOOL_NO_LOG /\ Calls("~PoolAllocator")
                   /\ pc' = "TornDown")
                   => stderr' = [i \in 1 .. m_current_block_index |->
                                    Line("Freeing Block", released'[i])]]_vars


\* What a free-link access outside the blocks of the table is recorded as: a
\* load or store of Chunk::next through the null head, through an address in
\* no block, or running past the end of its block.
LinkFaults ==
    {"null_load", "wild_load", "load_past_block", "null_store", "wild_store",
     "store_past_block", "runaway_loop"}

\* C22: every free-link load or store of the constructor, allocate(),
\* deallocate() and block growth lies wholly inside a block recorded in the
\* block table: the last call made none through the null head, none through
\* an address outside the blocks and none past the end of a block.  (Stated
\* for pools with positive capacities and an allocated block table, for every
\* sizeof(T).)
C22_LinkAccessInBlock ==
    (Positive /\ TableAllocated
        /\ last.op \in {"PoolAllocator", "allocate", "deallocate"})
       => last.ub \cap LinkFaults = {}


\* C23: when allocate() has obtained a block, the byte count it asked malloc
\* for, chunks_per_block * sizeof(T) in usize arithmetic, is the mathematical
\* product, the threading loop's bound chunks_per_block - 1 has not wrapped,
\* and the chunks the loop links (one more than its bound) fit in the block.
\* (Stated for pools with positive capacities.)
C23_BlockSizeExact ==
    (Positive /\ last.op = "allocate" /\ last.malloc = "ok")
       => /\ block_size = m_chunks_per_block * m_chunk_size
          /\ LoopBound = m_chunks_per_block - 1
          /\ (LoopBound + 1) * m_chunk_size <= block_size


=============================================================================
